---- MODULE Spec2Model ----
(***************************************************************************)
(* Connection and query lifecycle of AzureMonitorDriver                    *)
(* (msticpy/data/drivers/azure_monitor_driver.py).                         *)
(*                                                                         *)
(* The driver object is the state; connect, query and query_with_results   *)
(* are the operations.  The credential provider, the query service, the    *)
(* management endpoint and the settings store are the environment: their   *)
(* answers are drawn from small sets.                                      *)
(*                                                                         *)
(* Further sections model the schema formatting functions of the driver,   *)
(* and screenshot and DomainValidator of msticpy/context/domain_utils.py.  *)
(***************************************************************************)
EXTENDS Integers, Sequences, FiniteSets, TLC

VARIABLES
    connected,            \* self._connected
    query_client,         \* self._query_client: <<>> is None, <<c>> a client
    az_tenant_id,         \* self._az_tenant_id
    ws_config,            \* self._ws_config (key of a WorkspaceConfig)
    ws_name,              \* self._ws_name
    workspace_id,         \* self._workspace_id
    workspace_ids,        \* self._workspace_ids
    def_connection_str,   \* self._def_connection_str
    connect_auth_types,   \* self._connect_auth_types
    def_timeout,          \* self._def_timeout
    fail_on_partial,      \* self._fail_on_partial
    schema,               \* self._schema (set of table names)
    op,                   \* the last operation called on the driver
    err,                  \* the exception it raised (NoErr when it returned)
    calls,                \* the external calls it made, in order
    conn,                 \* what the last connect was given and resolved
    qres,                 \* what the last query dispatched and returned
    ever_connected,       \* some connect call has succeeded
    all_ok,               \* no connect call has failed
    connects,             \* the connect calls so far; MaxConnects after the last
    supplied,             \* the settings the caller supplied most recently
    target,               \* the workspaces the last successful connect resolved
    fmt_in,               \* the argument of the last schema formatting call
    fmt_out,              \* what that call returned
    pc,                   \* screenshot: where the call stands
    max_progress,         \* screenshot: its max_progress argument
    progress,             \* screenshot: progress.value
    ready,                \* screenshot: ready
    statuses,             \* screenshot: the answers to its status requests
    image_data,           \* screenshot: the response it returned
    ssl_abuse_list,       \* DomainValidator._ssl_abuse_list (its SHA1 rows)
    abuse_ret             \* what the last DomainValidator operation did

driver == <<connected, query_client, az_tenant_id, ws_config, ws_name,
            workspace_id, workspace_ids, def_connection_str,
            connect_auth_types, def_timeout, fail_on_partial, schema>>

vars == <<connected, query_client, az_tenant_id, ws_config, ws_name,
          workspace_id, workspace_ids, def_connection_str,
          connect_auth_types, def_timeout, fail_on_partial, schema,
          op, err, calls, conn, qres, ever_connected, all_ok, connects,
          supplied, target, fmt_in, fmt_out,
          pc, max_progress, progress, ready, statuses, image_data,
          ssl_abuse_list, abuse_ret>>

\* the variables of DomainValidator
abuse == <<ssl_abuse_list, abuse_ret>>

\* the variables of a screenshot call
shot == <<pc, max_progress, progress, ready, statuses, image_data>>

----------------------------------------------------------------------------
(* Bounds of the model *)

\* longest workspaces list passed to connect
MaxNames == 2

\* longest workspace_ids list passed to connect
MaxIds == 2

\* most tables in one query result
MaxTables == 2

\* most connect calls on one driver
MaxConnects == 2

\* most columns in one raw table schema
MaxCols == 2

\* longest table list of a schema response
MaxRawTables == 2

\* largest max_progress passed to screenshot
MaxProgress == 3

\* most rows of a downloaded abuse list
MaxRows == 2

----------------------------------------------------------------------------
(* Values *)

\* Python None, and an absent keyword argument
None == "None"

\* AzureMonitorDriver._DEFAULT_TIMEOUT
DEFAULT_TIMEOUT == 300

\* timeout given to the constructor, to connect, to a query
CtorTimeout == 60

ConnectTimeout == 10

QueryTimeout == 20

\* no timeout keyword in the call
NoTimeout == 0

\* self._try_get_schema is set in __init__ and never changed
TryGetSchema == TRUE

WorkspaceIdSet == {"W1", "W2"}

TenantIdSet == {"T1", "T2"}

WorkspaceNames == {"A", "B", "C"}

\* Sequences over S of length at most n
SeqsUpTo(S, n) == UNION {[1..k -> S] : k \in 0..n}

\* Sequences over S of length at most n that repeat no element
InjSeqsUpTo(S, n) ==
    {q \in SeqsUpTo(S, n) : \A i, j \in DOMAIN q : q[i] = q[j] => i = j}

Range(q) == {q[i] : i \in DOMAIN q}

----------------------------------------------------------------------------
(* Exceptions: the class and the title (or message) of each raise *)

Error(class, title) == [class |-> class, title |-> title]

NoErr == Error(None, None)

ErrNotConnected == Error("MsticpyNotConnectedError", "Workspace not connected.")

ErrTenantMismatch ==
    Error("ValueError", "All workspaces must have the same tenant ID.")

ErrNoTenantId == Error("MsticpyKqlConnectionError", "No tenant_id supplied.")

ErrNoWorkspace == Error("MsticpyKqlConnectionError", "No connection details")

ErrNoIds ==
    Error("MsticpyKqlConnectionError",
          "At least a workspace ID and tenant ID are required.")

ErrQueryFailure == Error("MsticpyDataQueryError", "Query Failure")

ErrUnknown == Error("MsticpyDataQueryError", "connection failed")

ErrPartial == Error("MsticpyDataQueryError", "Partial results returned")

ErrNoDataSource == Error("MsticpyNoDataSourceError", "table not found.")

\* raised by the collaborators, passed through by the driver
ErrCredential == Error("ClientAuthenticationError", "az_connect")

ErrTransport == Error("httpx.TransportError", "schema request")

ErrAttribute == Error("AttributeError", "tables")

----------------------------------------------------------------------------
(* The settings store and connection strings: WorkspaceConfig *)

\* The WorkspaceConfig objects of the model, by key.  full: the config has
\* subscription_id, resource_group and workspace_name.  Every named entry of
\* the settings holds a workspace id and a tenant id: what indexing a
\* WorkspaceConfig by an absent key does is decided outside this source.
\* B and C are two names for one workspace id under different tenants.
Config(key) ==
    CASE key = "cfgA" ->
           [workspace_id |-> "W1", tenant_id |-> "T1", workspace_name |-> "A", full |-> TRUE]
      [] key = "cfgB" ->
           [workspace_id |-> "W2", tenant_id |-> "T1", workspace_name |-> "B", full |-> FALSE]
      [] key = "cfgC" ->
           [workspace_id |-> "W2", tenant_id |-> "T2", workspace_name |-> "C", full |-> TRUE]
      [] key = "cfgDefault" ->
           [workspace_id |-> "W1", tenant_id |-> "T1", workspace_name |-> "Default", full |-> TRUE]
      [] key = "cfgCsA" ->
           [workspace_id |-> "W1", tenant_id |-> "T1", workspace_name |-> None, full |-> FALSE]
      [] key = "cfgCsNoTenant" ->
           [workspace_id |-> "W1", tenant_id |-> None, workspace_name |-> None, full |-> FALSE]
      [] OTHER ->
           [workspace_id |-> None, tenant_id |-> None, workspace_name |-> None, full |-> FALSE]

\* WorkspaceConfig(workspace=name): the entry of that name in the settings,
\* the Default entry when no name is given
WorkspaceConfigOf(name) ==
    CASE name = "A" -> "cfgA"
      [] name = "B" -> "cfgB"
      [] name = "C" -> "cfgC"
      [] OTHER -> "cfgDefault"

\* The connection_str arguments: three strings and a WorkspaceConfig object
ConnectionStrings == {"csA", "csNoTenant", "csBad"}

ConfigObjects == {"obj:cfgC"}

\* the tenant_id arguments
TenantArgs == {"T2"}

\* isinstance(connection_str, str)
IsStr(cs) == cs \in ConnectionStrings

\* WorkspaceConfig.from_connection_string: None when the string does not
\* parse (the ValueError is suppressed)
FromConnectionString(cs) ==
    CASE cs = "csA" -> "cfgCsA"
      [] cs = "csNoTenant" -> "cfgCsNoTenant"
      [] OTHER -> None

\* a WorkspaceConfig passed as connection_str
ConfigObject(cs) == IF cs = "obj:cfgC" THEN "cfgC" ELSE None

----------------------------------------------------------------------------
(* Query results *)

\* the status dictionary of _get_query_status; result is the raw result in
\* the unknown-failure shape
Status(name, tables, result) ==
    [status |-> name, tables |-> tables, result |-> result]

\* no status was computed
NoStatus == Status(None, 0, None)

\* the arguments of one query_workspace call; timespan is <<>> for None,
\* else the pair of its bounds
Dispatch(id, query, timespan, timeout, additional) ==
    [workspace_id |-> id, query |-> query, timespan |-> timespan,
     server_timeout |-> timeout, additional_workspaces |-> additional]

\* query_workspace was not called
NoDispatch == Dispatch(None, None, <<>>, NoTimeout, <<>>)

\* A time: a datetime, or a pd.Timestamp.  us counts the microseconds since
\* the epoch, ns the nanoseconds beyond the last whole microsecond (a
\* datetime has none), tz is the timezone attached, "naive" for none
Datetime(us, tz) == [type |-> "datetime", us |-> us, ns |-> 0, tz |-> tz]

Timestamp(us, ns, tz) == [type |-> "Timestamp", us |-> us, ns |-> ns, tz |-> tz]

\* the time_span dictionaries a caller passes, as <<start, end>>: a bound
\* is <<>> when its key is absent or None, else <<the time>>
TimeSpans ==
    {<<<<>>, <<Datetime(9, "naive")>>>>,
     <<<<Timestamp(2, 0, "UTC")>>, <<>>>>,
     <<<<Datetime(1, "naive")>>, <<Datetime(9, "naive")>>>>,
     <<<<Timestamp(2, 0, "UTC")>>, <<Datetime(5, "UTC")>>>>,
     <<<<Timestamp(3, 500, "naive")>>, <<Timestamp(8, 250, "naive")>>>>}

TableSet == {"ta", "tb"}

\* the table lists of a result: at least one table
TableLists == SeqsUpTo(TableSet, MaxTables) \ {<<>>}

\* the message of an exception: a string as the sequence of its pieces, a
\* line break being the piece "\n"
ErrorMessages == {<<>>, <<"e1">>, <<"e1", "\n", "e2">>}

\* an exception the query client raises
Exception(class, message) == [class |-> class, message |-> message]

NoException == Exception(None, <<>>)

\* what query_workspace does: return a LogsQueryResult or a
\* LogsQueryPartialResult with its tables, return something else (an object
\* without a tables attribute, tables <<>> here, or one that has tables),
\* raise an HttpResponseError or raise another exception
ServiceAnswers ==
    [kind : {"success", "partial"}, tables : TableLists, message : {<<>>}]
    \cup [kind : {"unknown"}, tables : {<<>>, <<"ta">>}, message : {<<>>}]
    \cup [kind : {"http_error"}, tables : {<<>>}, message : ErrorMessages]
    \cup [kind : {"exception"}, tables : {<<>>}, message : {<<"e3">>}]

\* the exception an answer of the service raises
Raised(answer) ==
    IF answer.kind = "http_error"
    THEN Exception("HttpResponseError", answer.message)
    ELSE IF answer.kind = "exception"
    THEN Exception("KeyError", answer.message)
    ELSE NoException

----------------------------------------------------------------------------
(* The driver object as a record, with the exception and the calls of the  *)
(* operation in progress                                                   *)

Self ==
    [connected |-> connected, query_client |-> query_client,
     az_tenant_id |-> az_tenant_id, ws_config |-> ws_config,
     ws_name |-> ws_name, workspace_id |-> workspace_id,
     workspace_ids |-> workspace_ids,
     def_connection_str |-> def_connection_str,
     connect_auth_types |-> connect_auth_types,
     def_timeout |-> def_timeout, fail_on_partial |-> fail_on_partial,
     schema |-> schema,
     err |-> NoErr, args |-> <<>>, cause |-> NoException,
     calls |-> <<>>, path |-> None, cfg |-> None, ret |-> <<>>,
     data |-> None, status |-> NoStatus, warned |-> FALSE, sent |-> NoDispatch]

Raise(s, e) == [s EXCEPT !.err = e]

\* one statement after another: v is computed once and F continues with it
Then(v, F(_)) == CHOOSE r \in {F(x) : x \in {v}} : TRUE

Called(s, c) == [s EXCEPT !.calls = Append(@, c)]

----------------------------------------------------------------------------
(* connect: workspace resolution *)

\* dict[key] = value: a new key goes last, an old key keeps its place
DictPut(d, k, v) ==
    IF \E i \in DOMAIN d : d[i][1] = k
    THEN [i \in DOMAIN d |-> IF d[i][1] = k THEN <<k, v>> ELSE d[i]]
    ELSE Append(d, <<k, v>>)

RECURSIVE DictUpTo(_, _)
\* the dict comprehension of _get_workspaces_by_name over workspaces[1..n]:
\* workspace id -> tenant id, as (key, value) pairs in insertion order
DictUpTo(workspaces, n) ==
    IF n = 0 THEN <<>>
    ELSE LET cfg == Config(WorkspaceConfigOf(workspaces[n]))
         IN  DictPut(DictUpTo(workspaces, n - 1), cfg.workspace_id, cfg.tenant_id)

WorkspaceConfigsDict(workspaces) == DictUpTo(workspaces, Len(workspaces))

DictKeys(d) == {d[i][1] : i \in DOMAIN d}

DictValues(d) == {d[i][2] : i \in DOMAIN d}

\* list(set(keys)): the keys in an order the set iteration picks
SetOrders(K) == {q \in InjSeqsUpTo(K, Cardinality(K)) : Range(q) = K}

\* _get_workspaces_by_name; order is the iteration order of set(...)
GetWorkspacesByName(s, workspaces, order) ==
    LET workspace_configs == WorkspaceConfigsDict(workspaces)
    IN  IF Cardinality(DictValues(workspace_configs)) > 1
        THEN Raise(s, ErrTenantMismatch)
        ELSE [s EXCEPT !.az_tenant_id = workspace_configs[1][2],
                       !.workspace_ids = order]

\* _get_workspaces_by_id without its tenant_id test
GetWorkspacesById_NoCheck(s, ids) == [s EXCEPT !.workspace_ids = ids]

\* _get_workspaces_by_id
GetWorkspacesById(s, ids) ==
    IF s.az_tenant_id = None
    THEN Raise(s, ErrNoTenantId)
    ELSE [s EXCEPT !.workspace_ids = ids]

\* the test of the resolved config for its workspace_id alone
LacksIds_IdOnly(cfg) == Config(cfg).workspace_id = None

\* the test of the resolved config for its identifiers
LacksIds(cfg) ==
    Config(cfg).workspace_id = None \/ Config(cfg).tenant_id = None

\* the single-workspace part of _get_workspaces, once the local ws_config
\* (kept in cfg) is known
SetSingleWorkspace(s0, workspace_name, cfg) ==
    LET s == [s0 EXCEPT !.cfg = cfg]
    IN  IF cfg = None
        THEN Raise(s, ErrNoWorkspace)
        ELSE IF LacksIds(cfg)
        THEN Raise(s, ErrNoIds)
        ELSE [s EXCEPT
            !.ws_config = cfg,
            !.ws_name = IF workspace_name # None THEN workspace_name
                        ELSE Config(cfg).workspace_id,
            !.az_tenant_id = IF @ = None THEN Config(cfg).tenant_id ELSE @,
            !.workspace_id = Config(cfg).workspace_id]

\* the branches of _get_workspaces with workspace_ids tested first
WorkspaceInput_IdsFirst(s, inp) ==
    IF inp.workspace_ids # <<>> THEN "workspace_ids"
    ELSE IF inp.workspaces # <<>> THEN "workspaces"
    ELSE IF inp.workspace # None THEN "workspace"
    ELSE IF inp.connection_str # None THEN "connection_str"
    ELSE IF s.def_connection_str # None THEN "def_connection_str"
    ELSE "default"

\* the branch of _get_workspaces a call takes, named by the input it uses
WorkspaceInput(s, inp) ==
    IF inp.workspaces # <<>> THEN "workspaces"
    ELSE IF inp.workspace_ids # <<>> THEN "workspace_ids"
    ELSE IF inp.workspace # None THEN "workspace"
    ELSE IF inp.connection_str # None THEN "connection_str"
    ELSE IF s.def_connection_str # None THEN "def_connection_str"
    ELSE "default"

\* _get_workspaces; path records the branch taken
GetWorkspaces(s, inp, order) ==
    LET path == WorkspaceInput(s, inp)
        s1 == [s EXCEPT !.az_tenant_id = inp.tenant_id, !.path = path]
        connection_str == IF inp.connection_str # None THEN inp.connection_str
                          ELSE s.def_connection_str
    IN  IF path = "workspaces"
        THEN GetWorkspacesByName(s1, inp.workspaces, order)
        ELSE IF path = "workspace_ids"
        THEN GetWorkspacesById(s1, inp.workspace_ids)
        ELSE IF path \in {"workspace", "default"}
        THEN SetSingleWorkspace(s1, inp.workspace,
                                WorkspaceConfigOf(inp.workspace))
        ELSE IF IsStr(connection_str)
        THEN SetSingleWorkspace(
                 [s1 EXCEPT !.def_connection_str = connection_str],
                 inp.workspace, FromConnectionString(connection_str))
        ELSE SetSingleWorkspace(s1, inp.workspace, ConfigObject(connection_str))

----------------------------------------------------------------------------
(* connect: query client and schema *)

\* auth_types as stored: a bool becomes None, a string a one-element list
AuthTypes(a) ==
    CASE a = "True" -> None
      [] a = "cli" -> "[cli]"
      [] OTHER -> a

\* _create_query_client; ret is the client it returns
CreateQueryClient(s, inp, env) ==
    LET s1 == [s EXCEPT
                 !.connect_auth_types = AuthTypes(inp.auth_types),
                 !.def_timeout = IF inp.timeout = NoTimeout
                                 THEN DEFAULT_TIMEOUT ELSE inp.timeout]
    IN  Then(GetWorkspaces(s1, inp, env.order), LAMBDA s2 :
          IF s2.err # NoErr THEN s2
          ELSE IF env.cred = "raise"
          THEN Raise(Called(s2, "az_connect"), ErrCredential)
          ELSE [Called(Called(s2, "az_connect"), "LogsQueryClient") EXCEPT
                  !.ret = <<[tenant_id |-> s2.az_tenant_id,
                             auth_methods |-> s2.connect_auth_types]>>])

\* the tables the management endpoint lists for a workspace
WorkspaceTables(cfg) ==
    IF Config(cfg).workspace_id = "W1" THEN {"SecurityAlert"}
    ELSE {"SecurityAlert", "Syslog"}

\* _get_schema that fails on an answer that is not OK
GetSchema_Strict(s0, env) ==
    LET s == Called(s0, "_get_schema")
        s1 == Called(s, "az_connect")
        s2 == Called(Called(s1, "get_token"), "http_get")
    IN  IF s.ws_config = None THEN [s EXCEPT !.ret = {}]
        ELSE IF Config(s.ws_config).workspace_name \in {None, "Default"}
        THEN [s EXCEPT !.ret = {}]
        ELSE IF ~Config(s.ws_config).full THEN [s EXCEPT !.ret = {}]
        ELSE IF env.schema = "cred_raise" THEN Raise(s1, ErrCredential)
        ELSE IF env.schema \in {"raise", "not_ok"} THEN Raise(s2, ErrTransport)
        ELSE [s2 EXCEPT !.ret = WorkspaceTables(s.ws_config)]

\* _get_schema; ret is the schema it returns
GetSchema(s0, env) ==
    LET s == Called(s0, "_get_schema")
        s1 == Called(s, "az_connect")
        s2 == Called(Called(s1, "get_token"), "http_get")
    IN  IF s.ws_config = None THEN [s EXCEPT !.ret = {}]
        ELSE IF Config(s.ws_config).workspace_name \in {None, "Default"}
        THEN [s EXCEPT !.ret = {}]
        ELSE IF ~Config(s.ws_config).full THEN [s EXCEPT !.ret = {}]
        ELSE IF env.schema = "cred_raise" THEN Raise(s1, ErrCredential)
        ELSE IF env.schema = "raise" THEN Raise(s2, ErrTransport)
        ELSE IF env.schema = "not_ok" THEN [s2 EXCEPT !.ret = {}]
        ELSE [s2 EXCEPT !.ret = WorkspaceTables(s.ws_config)]

\* connect without its first statement
ConnectBegin_Keep(s) == s

\* the first statement of connect
ConnectBegin(s) == [s EXCEPT !.connected = FALSE]

\* connect
Connect(s, inp, env) ==
    LET SetClient(s1) ==
            [s1 EXCEPT
               !.query_client = s1.ret,
               !.fail_on_partial = IF inp.fail_on_partial = None THEN @
                                   ELSE inp.fail_on_partial = "True"]
        SetSchema(s2) ==
            IF TryGetSchema
            THEN Then(GetSchema(s2, env), LAMBDA s3 :
                   IF s3.err # NoErr THEN s3 ELSE [s3 EXCEPT !.schema = s3.ret])
            ELSE s2
    IN  Then(CreateQueryClient(ConnectBegin(s), inp, env), LAMBDA s1 :
          IF s1.err # NoErr THEN s1
          ELSE Then(SetSchema(SetClient(s1)), LAMBDA s4 :
                 IF s4.err # NoErr THEN s4
                 ELSE [s4 EXCEPT !.connected = TRUE]))

----------------------------------------------------------------------------
(* query and query_with_results *)

RECURSIVE LStrip(_)
\* a string without its leading spaces; a string is the sequence of its
\* pieces, each a space or a word without spaces
LStrip(str) ==
    IF str # <<>> /\ Head(str) = " " THEN LStrip(Tail(str)) ELSE str

RECURSIVE RStrip(_)
RStrip(str) ==
    IF str # <<>> /\ str[Len(str)] = " "
    THEN RStrip(SubSeq(str, 1, Len(str) - 1)) ELSE str

\* str.strip()
Strip(str) == RStrip(LStrip(str))

RECURSIVE SplitFirst(_)
\* str.split(" ")[0]: the pieces before the first space
SplitFirst(str) ==
    IF str = <<>> \/ Head(str) = " " THEN <<>>
    ELSE <<Head(str)>> \o SplitFirst(Tail(str))

\* table in self.schema: the keys of the schema are single words
InSchema(str, keys) == Len(str) = 1 /\ str[1] \in keys

\* _check_table_exists; table is the query source's default table (<<>>:
\* the source declares no table)
CheckTableExists(s, table) ==
    LET name == IF " " \in Range(Strip(table)) THEN SplitFirst(Strip(table))
                ELSE table
    IN  IF s.schema = {} THEN s
        ELSE IF table = <<>> THEN s
        ELSE IF ~InSchema(name, s.schema) THEN Raise(s, ErrNoDataSource)
        ELSE s

\* _get_query_status
GetQueryStatus(result) ==
    IF result.kind = "success" THEN Status("SUCCESS", Len(result.tables), None)
    ELSE IF result.kind = "partial"
    THEN Status("PARTIAL", Len(result.tables), None)
    ELSE Status("unknown failure", 0, result.kind)

\* fail_on_partial with the two keywords in the other order
FailOnPartial_OnFirst(s, kw) ==
    IF kw.fail_on_partial # None THEN kw.fail_on_partial = "True"
    ELSE IF kw.fail_if_partial # None THEN kw.fail_if_partial = "True"
    ELSE s.fail_on_partial

\* the fail_on_partial in effect for one call
FailOnPartial(s, kw) ==
    IF kw.fail_if_partial # None THEN kw.fail_if_partial = "True"
    ELSE IF kw.fail_on_partial # None THEN kw.fail_on_partial = "True"
    ELSE s.fail_on_partial

\* the connection test on the client alone
NotConnected_ClientOnly(s) == s.query_client = <<>>

\* the connection test of query and query_with_results
NotConnected(s) == ~s.connected \/ s.query_client = <<>>

\* _raise_query_failure that also drops the connection
RaiseQueryFailure_Disconnect(s, query, http_err) ==
    [Raise(s, ErrQueryFailure) EXCEPT !.connected = FALSE]

RECURSIVE Split(_, _)
\* str.split(sep): the pieces between the separators, at least one
Split(str, sep) ==
    IF \A i \in DOMAIN str : str[i] # sep THEN <<str>>
    ELSE LET i == CHOOSE k \in DOMAIN str :
                    /\ str[k] = sep
                    /\ \A j \in 1..(k - 1) : str[j] # sep
         IN  <<SubSeq(str, 1, i - 1)>>
               \o Split(SubSeq(str, i + 1, Len(str)), sep)

\* _raise_query_failure; args are the positional arguments of the error,
\* cause the exception it is raised from
RaiseQueryFailure(s, query, http_err) ==
    LET split == Split(http_err.message, "\n")
        err_contents == IF split = <<>> THEN <<<<"Unknown query error">>>>
                        ELSE split
    IN  [Raise(s, ErrQueryFailure) EXCEPT
           !.args = Append(err_contents, <<"Query:", "\n", query>>),
           !.cause = http_err]

\* _raise_unknown_error that lets the exception of the client pass
RaiseUnknownError_Pass(s, exception) ==
    [Raise(s, Error(exception.class, "query_workspace")) EXCEPT
       !.args = <<exception.message>>]

\* _raise_unknown_error; the args of the exception are its message
RaiseUnknownError(s, exception) ==
    [Raise(s, ErrUnknown) EXCEPT
       !.args = <<<<"An unknown exception was returned by the service">>,
                  exception.message,
                  <<"Full exception:", "\n">> \o exception.message>>,
       !.cause = exception]

\* TimeSpan(start=..., end=...): holds the two bounds it is given
TimeSpan(start, end) == [start |-> start, end |-> end]

\* a conversion of a pd.Timestamp that moves it to UTC and drops the timezone
ToPyDatetime_Utc(ts) == Datetime(ts.us, "naive")

\* pd.Timestamp.to_pydatetime(warn=False): the nanoseconds are dropped
ToPyDatetime(ts) == Datetime(ts.us, ts.tz)

\* _get_time_span_value; an absent bound is <<>>, the result <<>> is None
GetTimeSpanValue(kw) ==
    IF kw.default_time_params \/ kw.start = <<>> \/ kw.end = <<>>
    THEN <<>>
    ELSE LET time_span == TimeSpan(kw.start[1], kw.end[1])
             t_start == IF time_span.start.type = "Timestamp"
                        THEN ToPyDatetime(time_span.start)
                        ELSE time_span.start
             t_end == IF time_span.end.type = "Timestamp"
                      THEN ToPyDatetime(time_span.end)
                      ELSE time_span.end
         IN  <<t_start, t_end>>

\* the last table instead of the first
LastTable(tables) == tables[Len(tables)]

\* partial_data[0], tables[0]
FirstTable(tables) == tables[1]

\* query_with_results
QueryWithResults(s, query, kw, answer) ==
    LET time_span_value == GetTimeSpanValue(kw)
        fop == FailOnPartial(s, kw)
        server_timeout == IF kw.timeout = NoTimeout THEN s.def_timeout
                          ELSE kw.timeout
        id == IF s.workspace_ids # <<>> THEN Head(s.workspace_ids)
              ELSE s.workspace_id
        additional_workspaces == IF s.workspace_ids # <<>>
                                 THEN Tail(s.workspace_ids) ELSE <<>>
        s1 == [Called(s, "query_workspace") EXCEPT
                 !.sent = Dispatch(id, query, time_span_value,
                                   server_timeout, additional_workspaces)]
        s2 == [s1 EXCEPT !.status = GetQueryStatus(answer)]
    IN  IF NotConnected(s)
        THEN Raise(s, ErrNotConnected)
        ELSE IF answer.kind = "http_error"
        THEN RaiseQueryFailure(s1, query, Raised(answer))
        ELSE IF answer.kind = "exception"
        THEN RaiseUnknownError(s1, Raised(answer))
        ELSE IF answer.kind = "partial"
        THEN IF fop THEN Raise(s2, ErrPartial)
             ELSE [s2 EXCEPT !.warned = TRUE,
                             !.data = FirstTable(answer.tables)]
        ELSE IF answer.kind = "success"
        THEN [s2 EXCEPT !.data = FirstTable(answer.tables)]
        ELSE IF answer.tables = <<>> THEN Raise(s2, ErrAttribute)
        ELSE [s2 EXCEPT !.data = FirstTable(answer.tables)]

\* query
Query(s, query, table, kw, answer) ==
    IF NotConnected(s)
    THEN Raise(s, ErrNotConnected)
    ELSE IF CheckTableExists(s, table).err # NoErr
    THEN CheckTableExists(s, table)
    ELSE QueryWithResults(s, query, kw, answer)

----------------------------------------------------------------------------
(* The arguments the model calls the operations with *)

NoArgs ==
    [connection_str |-> None, workspace |-> None, workspaces |-> <<>>,
     workspace_ids |-> <<>>, tenant_id |-> None, timeout |-> NoTimeout,
     fail_on_partial |-> None, auth_types |-> None]

WorkspaceLists == InjSeqsUpTo(WorkspaceNames, MaxNames) \ {<<>>}

IdLists == SeqsUpTo(WorkspaceIdSet, MaxIds) \ {<<>>}

\* connect with one workspace input, or none
OneInput ==
    {NoArgs}
    \cup {[NoArgs EXCEPT !.workspaces = w] : w \in WorkspaceLists}
    \cup {[NoArgs EXCEPT !.workspace_ids = w] : w \in IdLists}
    \cup {[NoArgs EXCEPT !.workspace = w] : w \in WorkspaceNames}
    \cup {[NoArgs EXCEPT !.connection_str = c] :
            c \in ConnectionStrings \cup ConfigObjects}

\* the same calls with a tenant_id
WithTenant(I) ==
    I \cup {[i EXCEPT !.tenant_id = t] : i \in I, t \in TenantArgs}

\* connect with several workspace inputs at once
Mixed ==
    [connection_str : {None, "csA"}, workspace : {None, "C"},
     workspaces : {<<>>, <<"A", "B">>}, workspace_ids : {<<>>, <<"W2">>},
     tenant_id : {None, "T2"}, timeout : {NoTimeout},
     fail_on_partial : {None}, auth_types : {None}]

\* the same calls with a timeout, fail_on_partial or auth_types
WithSetting(I) ==
    {[i EXCEPT !.timeout = ConnectTimeout] : i \in I}
    \cup {[i EXCEPT !.fail_on_partial = f] : i \in I, f \in {"True", "False"}}
    \cup {[i EXCEPT !.auth_types = a] : i \in I, a \in {"True", "cli"}}

ConnectInputs ==
    WithTenant(OneInput) \cup Mixed
    \cup WithSetting({NoArgs, [NoArgs EXCEPT !.workspace = "A"],
                      [NoArgs EXCEPT !.workspace_ids = <<"W1">>],
                      [NoArgs EXCEPT !.connection_str = "csBad"]})

\* the calls of the lifecycle specification: one of each kind of connect
BasicInputs ==
    {NoArgs,
     [NoArgs EXCEPT !.workspace = "A"],
     [NoArgs EXCEPT !.workspaces = <<"A", "B">>],
     [NoArgs EXCEPT !.workspace_ids = <<"W2", "W1">>, !.tenant_id = "T2"],
     [NoArgs EXCEPT !.workspace_ids = <<"W1">>],
     [NoArgs EXCEPT !.connection_str = "csA", !.timeout = ConnectTimeout,
                    !.fail_on_partial = "True"],
     [NoArgs EXCEPT !.workspace = "A", !.fail_on_partial = "False"]}

\* the answers of the credential provider and of the management endpoint to
\* one connect, and the order set iteration takes; an answer is drawn only
\* when the call that asks for it is made
Environments(s, inp) ==
    LET Answers(orders, any, made) ==
            {e \in [cred : {"ok", "raise"},
                    schema : {"ok", "not_ok", "raise", "cred_raise"},
                    order : orders] :
               /\ "az_connect" \notin made => e.cred = "ok" /\ e.order = any
               /\ "http_get" \notin made => e.schema = "ok"
               /\ e.cred = "raise" => e.schema = "ok"}
        AllOk(any) == [cred |-> "ok", schema |-> "ok", order |-> any]
    IN  Then(SetOrders(DictKeys(WorkspaceConfigsDict(inp.workspaces))),
             LAMBDA orders :
          Then(CHOOSE o \in orders : TRUE, LAMBDA any :
            Then(Range(Connect(s, inp, AllOk(any)).calls), LAMBDA made :
              Answers(orders, any, made))))

NoKw ==
    [timeout |-> NoTimeout, fail_on_partial |-> None, fail_if_partial |-> None,
     default_time_params |-> FALSE, start |-> <<>>, end |-> <<>>]

\* the keyword arguments of a query call: none, a timeout, or the partial
\* result switches
QueryKwargs ==
    {[NoKw EXCEPT !.timeout = QueryTimeout]}
    \cup [timeout : {NoTimeout}, fail_on_partial : {None, "True", "False"},
          fail_if_partial : {None, "True", "False"},
          default_time_params : {FALSE}, start : {<<>>}, end : {<<>>}]

\* the keyword arguments of a query call that hold time parameters
TimeKwargs ==
    {[NoKw EXCEPT !.default_time_params = d, !.start = ts[1], !.end = ts[2]] :
        d \in BOOLEAN, ts \in TimeSpans}

\* a call without a query source and without keyword arguments
PlainCall ==
    [query |-> "q1", table |-> <<>>, kw |-> NoKw,
     answer |-> [kind |-> "success", tables |-> <<"ta">>, message |-> <<>>]]

PartialAnswer ==
    [kind |-> "partial", tables |-> <<"tb", "ta">>, message |-> <<>>]

\* the calls of query_with_results: every answer of the service to a plain
\* call, every keyword combination on a partial and on a full result, and
\* another query string
QueryWithResultsCalls ==
    {[PlainCall EXCEPT !.answer = a] : a \in ServiceAnswers}
    \cup {[PlainCall EXCEPT !.kw = k, !.answer = PartialAnswer] : k \in QueryKwargs}
    \cup {[PlainCall EXCEPT !.kw = k] : k \in QueryKwargs \cup TimeKwargs}
    \cup {[PlainCall EXCEPT !.query = "q2"]}

\* the default table of a query source: a table of the schema, one that is
\* in no schema, one in another case, one followed by a clause, and one with
\* a space after or before it
QueryTables ==
    {<<"SecurityAlert">>, <<"NoSuchTable">>, <<"securityalert">>,
     <<"Syslog", " ", "|", " ", "take">>, <<"SecurityAlert", " ">>,
     <<" ", "Syslog">>}

\* the calls of query: those of query_with_results without keyword
\* arguments that are answered with at most one table, and the plain call
\* with each query source
QueryCalls ==
    {c \in QueryWithResultsCalls :
        c.kw = NoKw /\ Len(c.answer.tables) <= 1}
    \cup {[PlainCall EXCEPT !.table = tb] : tb \in QueryTables}

\* a call that finds the driver not connected draws no answer
Reaches(s, c) ==
    \/ ~NotConnected(s)
    \/ c.answer = PlainCall.answer

----------------------------------------------------------------------------
(* What the model remembers of the last operation *)

\* the workspace inputs a connect call was given
Given(s, inp) ==
    {k \in {"workspaces"} : inp.workspaces # <<>>}
    \cup {k \in {"workspace_ids"} : inp.workspace_ids # <<>>}
    \cup {k \in {"workspace"} : inp.workspace # None}
    \cup {k \in {"connection_str"} : inp.connection_str # None}
    \cup {k \in {"def_connection_str"} : s.def_connection_str # None}

\* the priority of the workspace inputs, highest first
Priority ==
    <<"workspaces", "workspace_ids", "workspace", "connection_str",
      "def_connection_str">>

\* the input of highest priority among those given
FirstByPriority(given) ==
    IF given = {} THEN "default"
    ELSE Priority[CHOOSE i \in DOMAIN Priority :
                    /\ Priority[i] \in given
                    /\ \A j \in 1..(i - 1) : Priority[j] \notin given]

\* the call with every workspace input but k taken away
OnlyInput(inp, k) ==
    [inp EXCEPT
       !.workspaces = IF k = "workspaces" THEN @ ELSE <<>>,
       !.workspace_ids = IF k = "workspace_ids" THEN @ ELSE <<>>,
       !.workspace = IF k = "workspace" THEN @ ELSE None,
       !.connection_str = IF k = "connection_str" THEN @ ELSE None]

\* the driver with the stored connection string taken away, unless k is it
OnlyStored(s, k) ==
    [s EXCEPT !.def_connection_str = IF k = "def_connection_str" THEN @
                                     ELSE None]

\* the workspace binding of the driver after resolution
Binding(r) ==
    [err |-> r.err, ws_config |-> r.ws_config, workspace_id |-> r.workspace_id,
     workspace_ids |-> Range(r.workspace_ids)]

NoBinding ==
    [err |-> NoErr, ws_config |-> None, workspace_id |-> None,
     workspace_ids |-> {}]

NoConn ==
    [given |-> {}, chosen |-> None, cfg |-> None, tenants |-> {},
     tenant_given |-> FALSE, resolved |-> NoBinding, alone |-> NoBinding,
     schema_answer |-> None, schema_before |-> {}, timeout |-> NoTimeout,
     fail_on_partial |-> None]

\* what a connect call leaves in conn
ConnectOutcome(s, inp, env, r) ==
    LET first == FirstByPriority(Given(s, inp))
    IN  [given |-> Given(s, inp),
         chosen |-> r.path,
         cfg |-> r.cfg,
         tenants |-> {Config(WorkspaceConfigOf(inp.workspaces[i])).tenant_id :
                        i \in DOMAIN inp.workspaces},
         tenant_given |-> inp.tenant_id # None,
         resolved |-> Then(GetWorkspaces(s, inp, env.order),
                           LAMBDA x : Binding(x)),
         alone |-> Then(GetWorkspaces(OnlyStored(s, first),
                                      OnlyInput(inp, first), env.order),
                        LAMBDA x : Binding(x)),
         schema_answer |-> IF "http_get" \in Range(r.calls) THEN env.schema
                           ELSE None,
         schema_before |-> s.schema,
         timeout |-> inp.timeout,
         fail_on_partial |-> inp.fail_on_partial]

NoQuery ==
    [query |-> None,
     answer |-> [kind |-> None, tables |-> <<>>, message |-> <<>>],
     raised |-> [args |-> <<>>, cause |-> NoException],
     fail_on_partial |-> FALSE, table |-> <<>>, kw |-> NoKw,
     data |-> None, status |-> NoStatus, warned |-> FALSE, sent |-> NoDispatch]

----------------------------------------------------------------------------
(* DomainValidator (msticpy/context/domain_utils.py): the abuse list kept  *)
(* in the class attribute _ssl_abuse_list.  A DataFrame is the sequence of *)
(* the SHA1 values of its rows; the empty DataFrame is <<>>.               *)

\* the SHA1 fingerprints of certificates
Hashes == {"h1", "h2", "h3"}

\* the non-empty abuse lists the site serves
AbuseLists == InjSeqsUpTo(Hashes, MaxRows) \ {<<>>}

\* what pd.read_csv does: return the list, which may have no rows, raise an
\* exception _get_ssl_abuselist catches, or raise another one
Downloads ==
    [kind : {"list"}, rows : AbuseLists \cup {<<>>}]
    \cup [kind : {"caught", "other"}, rows : {<<>>}]

\* an exception of read_csv that is no ConnectionError, HTTPError or URLError
ErrReadCsv == Error("pandas.errors.ParserError", "read_csv")

\* the certificate of a domain by its fingerprint, None when it cannot be
\* fetched or loaded
Certs == {None} \cup Hashes

\* the instances of DomainValidator
Instances == {"v1", "v2"}

\* _get_ssl_abuselist: the list, an empty one after a caught exception
GetSslAbuselist(answer) ==
    IF answer.kind = "other" THEN [err |-> ErrReadCsv, ret |-> <<>>]
    ELSE IF answer.kind = "caught" THEN [err |-> NoErr, ret |-> <<>>]
    ELSE [err |-> NoErr, ret |-> answer.rows]

\* a test of the cache that always asks for a download
NeedsLoad_Always(cache) == TRUE

\* cls._ssl_abuse_list is None or cls._ssl_abuse_list.empty
NeedsLoad(cache) == cache = <<>>

\* the ssl_abuse_list property: _check_and_load_abuselist, then the class
\* attribute; cache is the attribute after the access
SslAbuseList(cache, answer) ==
    IF NeedsLoad(cache)
    THEN LET got == GetSslAbuselist(answer)
         IN  [cache |-> IF got.err = NoErr THEN got.ret ELSE cache,
              calls |-> <<"read_csv">>, err |-> got.err,
              ret |-> IF got.err = NoErr THEN got.ret ELSE <<>>,
              download |-> answer.kind]
    ELSE [cache |-> cache, calls |-> <<>>, err |-> NoErr, ret |-> cache,
          download |-> None]

\* Series.str.contains(hex).any() over the SHA1 column
Contains(rows, hash) == \E i \in DOMAIN rows : rows[i] = hash

\* in_abuse_list: every exception ends in (False, None)
InAbuseList(cache, cert, answer) ==
    IF cert = None
    THEN [cache |-> cache, calls |-> <<>>, accessed |-> FALSE,
          download |-> None, result |-> FALSE, cert |-> None]
    ELSE LET got == SslAbuseList(cache, answer)
         IN  [cache |-> got.cache, calls |-> got.calls, accessed |-> TRUE,
              download |-> got.download,
              result |-> got.err = NoErr /\ Contains(got.ret, cert),
              cert |-> IF got.err = NoErr THEN cert ELSE None]

\* what the last operation on a DomainValidator did: whether it read the
\* property, how the download went if there was one, what it returned
AbuseRet(self, accessed, download, list, result, cert) ==
    [self |-> self, accessed |-> accessed, download |-> download,
     list |-> list, result |-> result, cert |-> cert]

NoAbuseRet == AbuseRet(None, FALSE, None, <<>>, FALSE, None)

----------------------------------------------------------------------------
(* The specification *)

\* the arguments of the constructor: none, or a connection string, a
\* timeout and fail_on_partial
ConstructorArgs ==
    {[connection_str |-> None, timeout |-> NoTimeout, fail_on_partial |-> None],
     [connection_str |-> "csA", timeout |-> CtorTimeout,
      fail_on_partial |-> "True"]}

\* the fields __init__ sets from its arguments
Constructed(args) ==
    /\ def_connection_str = args.connection_str
    /\ def_timeout = IF args.timeout = NoTimeout THEN DEFAULT_TIMEOUT
                     ELSE args.timeout
    /\ fail_on_partial = IF args.fail_on_partial = None THEN FALSE
                         ELSE args.fail_on_partial = "True"

\* the timeout and the fail_on_partial the caller supplied last, to the
\* constructor or to a connect call, NoTimeout and None when to neither;
\* built counts only the connect calls that built their query client
SuppliedAtConstruction(args) ==
    [timeout |-> args.timeout, fail_on_partial |-> args.fail_on_partial,
     built |-> args.fail_on_partial]

SuppliedAfterConnect(inp, r) ==
    [timeout |-> IF inp.timeout # NoTimeout THEN inp.timeout
                 ELSE supplied.timeout,
     fail_on_partial |-> IF inp.fail_on_partial # None THEN inp.fail_on_partial
                         ELSE supplied.fail_on_partial,
     built |-> IF /\ inp.fail_on_partial # None
                  /\ "LogsQueryClient" \in Range(r.calls)
               THEN inp.fail_on_partial ELSE supplied.built]

\* the workspaces the most recent successful connect resolved: the ids of a
\* connect by workspaces or workspace_ids in the order the driver holds
\* them, or the one id of a connect to a single workspace
NoTarget == [multi |-> FALSE, ids |-> <<>>]

TargetAfterConnect(r) ==
    IF r.err # NoErr THEN target
    ELSE IF r.path \in {"workspaces", "workspace_ids"}
    THEN [multi |-> TRUE, ids |-> r.workspace_ids]
    ELSE [multi |-> FALSE, ids |-> <<r.workspace_id>>]

\* __init__(connection_str, timeout=..., fail_on_partial=...)
Init ==
    /\ connected = FALSE
    /\ query_client = <<>>
    /\ az_tenant_id = None
    /\ ws_config = None
    /\ ws_name = None
    /\ workspace_id = None
    /\ workspace_ids = <<>>
    /\ \E args \in ConstructorArgs :
         Constructed(args) /\ supplied = SuppliedAtConstruction(args)
    /\ connect_auth_types = None
    /\ schema = {}
    /\ op = "init"
    /\ err = NoErr
    /\ calls = <<>>
    /\ conn = NoConn
    /\ qres = NoQuery
    /\ ever_connected = FALSE
    /\ all_ok = TRUE
    /\ connects = 0
    /\ target = NoTarget
    /\ fmt_in = <<>>
    /\ fmt_out = <<>>
    /\ pc = "idle"
    /\ max_progress = 0
    /\ progress = 0
    /\ ready = FALSE
    /\ statuses = <<>>
    /\ image_data = None
    /\ ssl_abuse_list = <<>>
    /\ abuse_ret = NoAbuseRet

\* the driver fields after an operation that ended in r
Becomes(r) ==
    /\ connected' = r.connected
    /\ query_client' = r.query_client
    /\ az_tenant_id' = r.az_tenant_id
    /\ ws_config' = r.ws_config
    /\ ws_name' = r.ws_name
    /\ workspace_id' = r.workspace_id
    /\ workspace_ids' = r.workspace_ids
    /\ def_connection_str' = r.def_connection_str
    /\ connect_auth_types' = r.connect_auth_types
    /\ def_timeout' = r.def_timeout
    /\ fail_on_partial' = r.fail_on_partial
    /\ schema' = r.schema
    /\ err' = r.err
    /\ calls' = r.calls

\* a call of connect with arguments from I; after one that is the last of
\* the history no further connect is taken
ConnectWith(I, last) ==
    /\ connects < MaxConnects
    /\ \E inp \in I :
         \E env \in Environments(Self, inp) :
           \E r \in {Connect(Self, inp, env)} :
               /\ Becomes(r)
               /\ op' = "connect"
               /\ conn' = ConnectOutcome(Self, inp, env, r)
               /\ qres' = NoQuery
               /\ ever_connected' = (ever_connected \/ r.connected)
               /\ all_ok' = (all_ok /\ r.err = NoErr)
               /\ connects' = IF last THEN MaxConnects ELSE connects + 1
               /\ supplied' = SuppliedAfterConnect(inp, r)
               /\ target' = TargetAfterConnect(r)
               /\ UNCHANGED <<fmt_in, fmt_out, shot, abuse>>

\* a connect of the lifecycle
ConnectStep == ConnectWith(BasicInputs, FALSE)

\* a connect with any combination of inputs, the last of the history
ConnectAnyStep == ConnectWith(ConnectInputs, TRUE)

\* what a query call leaves in qres
QueryOutcome(r, query, table, kw, answer) ==
    [query |-> query, answer |-> answer,
     raised |-> [args |-> r.args, cause |-> r.cause],
     fail_on_partial |-> FailOnPartial(Self, kw), table |-> table,
     kw |-> kw, data |-> r.data, status |-> r.status, warned |-> r.warned,
     sent |-> r.sent]

\* a call of query_with_results
QueryWithResultsStep ==
    \E c \in QueryWithResultsCalls :
        \E r \in {QueryWithResults(Self, c.query, c.kw, c.answer)} :
            /\ Reaches(Self, c)
            /\ Becomes(r)
            /\ op' = "query_with_results"
            /\ qres' = QueryOutcome(r, c.query, <<>>, c.kw, c.answer)
            /\ conn' = NoConn
            /\ UNCHANGED <<ever_connected, all_ok, connects, supplied,
                           target, fmt_in, fmt_out, shot, abuse>>

\* a call of query
QueryStep ==
    \E c \in QueryCalls :
        \E r \in {Query(Self, c.query, c.table, c.kw, c.answer)} :
            /\ Reaches(Self, c)
            /\ Becomes(r)
            /\ op' = "query"
            /\ qres' = QueryOutcome(r, c.query, c.table, c.kw, c.answer)
            /\ conn' = NoConn
            /\ UNCHANGED <<ever_connected, all_ok, connects, supplied,
                           target, fmt_in, fmt_out, shot, abuse>>

----------------------------------------------------------------------------
(* Schema formatting: _schema_format_tables and _schema_format_columns.    *)
(* A dict is the sequence of its (key, value) items in insertion order.    *)

\* the names of tables and columns, in the order of Python's string
\* comparison
NameOrder == <<"a", "b", "x", "y">>

Rank(name) == CHOOSE i \in DOMAIN NameOrder : NameOrder[i] = name

RECURSIVE DictFrom(_)
\* {key: value for ... in items}: the items put one after the other
DictFrom(items) ==
    IF items = <<>> THEN <<>>
    ELSE LET last == items[Len(items)]
         IN  DictPut(DictFrom(SubSeq(items, 1, Len(items) - 1)),
                     last[1], last[2])

RECURSIVE PutAll(_, _)
\* for col in cols: columns[col["name"]] = col["type"]
PutAll(columns, cols) ==
    IF cols = <<>> THEN columns
    ELSE PutAll(DictPut(columns, Head(cols).name, Head(cols).type), Tail(cols))

\* the item put into a list of items that is sorted by key
Insert(item, sorted) ==
    LET before == {i \in DOMAIN sorted : Rank(sorted[i][1]) <= Rank(item[1])}
        n == Cardinality(before)
    IN  SubSeq(sorted, 1, n) \o <<item>> \o SubSeq(sorted, n + 1, Len(sorted))

\* the items in the order they were put
Unsorted(d) == d

RECURSIVE Sorted(_)
\* dict(sorted(d.items())): the keys of a dict differ, so the items are
\* ordered by key
Sorted(d) ==
    IF d = <<>> THEN <<>>
    ELSE Insert(d[Len(d)], Sorted(SubSeq(d, 1, Len(d) - 1)))

\* _schema_format_columns
SchemaFormatColumns(table_schema) ==
    LET columns == DictFrom([i \in DOMAIN table_schema.standardColumns |->
                               <<table_schema.standardColumns[i].name,
                                 table_schema.standardColumns[i].type>>])
    IN  Sorted(PutAll(columns, table_schema.customColumns))

\* _schema_format_tables
SchemaFormatTables(ws_tables) ==
    LET table_schema ==
            DictFrom([i \in DOMAIN ws_tables |->
                        <<ws_tables[i].name,
                          SchemaFormatColumns(ws_tables[i].schema)>>])
    IN  Sorted(table_schema)

\* the columns of a raw table schema
Column(name, type) == [name |-> name, type |-> type]

Columns == {Column("x", "int"), Column("x", "str"), Column("y", "int")}

ColumnLists == SeqsUpTo(Columns, MaxCols)

\* properties.schema of a raw table; an absent column list is the empty one
RawSchema(standard, custom) ==
    [standardColumns |-> standard, customColumns |-> custom]

RawSchemas ==
    {RawSchema(sc[1], sc[2]) :
        sc \in {p \in ColumnLists \X ColumnLists :
                  Len(p[1]) + Len(p[2]) <= MaxCols}}

\* the raw tables of a schema response
RawTables ==
    [name : {"a", "b"},
     schema : {RawSchema(<<Column("x", "int"), Column("y", "int")>>, <<>>),
               RawSchema(<<Column("y", "int"), Column("x", "int")>>, <<>>),
               RawSchema(<<Column("x", "int")>>, <<Column("x", "str")>>),
               RawSchema(<<>>, <<>>)}]

RawTableLists == SeqsUpTo(RawTables, MaxRawTables)

\* the driver takes no part in a formatting call
FormatFrame ==
    UNCHANGED <<driver, err, calls, conn, qres, ever_connected, all_ok,
                connects, supplied, target, shot, abuse>>

\* a call of _schema_format_columns
FormatColumnsStep ==
    \E table_schema \in RawSchemas :
        /\ op' = "_schema_format_columns"
        /\ fmt_in' = table_schema
        /\ fmt_out' = SchemaFormatColumns(table_schema)
        /\ FormatFrame

\* a call of _schema_format_tables
FormatTablesStep ==
    \E ws_tables \in RawTableLists :
        /\ op' = "_schema_format_tables"
        /\ fmt_in' = ws_tables
        /\ fmt_out' = SchemaFormatTables(ws_tables)
        /\ FormatFrame

----------------------------------------------------------------------------
(* screenshot (msticpy/context/domain_utils.py): the Browshot requests and *)
(* the polling loop.  The service's answers are the environment.           *)

ErrBrowshotConfig ==
    Error("MsticpyUserConfigError", "Browshot configuration not found")

\* IntProgress(min=0, max=max_progress) with max_progress below min
ErrTrait == Error("TraitError", "setting max < min")

\* a response body that is no JSON object with the member asked for
ErrNoMember == Error("KeyError", "json")

\* httpx.get did not get a response
ErrHttpx == Error("httpx.TransportError", "get")

\* the max_progress arguments of the model
MaxProgressArgs == (-1)..MaxProgress

\* the answers to the create request, a status request, the image request
CreateAnswers == {"id", "no_id", "transport_error"}

StatusAnswers == {"finished", "processing", "no_status", "transport_error"}

ImageAnswers == {"success", "not_success", "transport_error"}

\* the value a bounded int widget keeps when it is set to v
Bounded(v, min, max) == IF v < min THEN min ELSE IF v > max THEN max ELSE v

\* a status that leaves ready as it is
IsFinished_Never(status) == FALSE

\* status == "finished"
IsFinished(status) == status = "finished"

\* the test of the while loop
Polling(is_ready, value, max) == ~is_ready /\ value < max

\* the exception a request raises on an answer, NoErr when it raises none
RequestError(answer) ==
    IF answer = "transport_error" THEN ErrHttpx
    ELSE IF answer \in {"no_id", "no_status"} THEN ErrNoMember
    ELSE NoErr

\* the driver and the schema formatting take no part in a screenshot
ShotFrame ==
    UNCHANGED <<driver, conn, qres, ever_connected, all_ok, connects,
                supplied, target, fmt_in, fmt_out, abuse>>

\* screenshot is called: the API key is looked up
ScreenshotCall ==
    /\ pc \in {"idle", "returned", "raised"}
    /\ \E bs_api_key \in {None, "key"}, m \in MaxProgressArgs :
         /\ max_progress' = m
         /\ pc' = IF bs_api_key = None THEN "raised" ELSE "create"
         /\ err' = IF bs_api_key = None THEN ErrBrowshotConfig ELSE NoErr
    /\ op' = "screenshot"
    /\ calls' = <<>>
    /\ statuses' = <<>>
    /\ image_data' = None
    /\ progress' = 0
    /\ ready' = FALSE
    /\ ShotFrame

\* the create request and the id in its response
CreateStep ==
    /\ pc = "create"
    /\ \E answer \in CreateAnswers :
         /\ err' = RequestError(answer)
         /\ pc' = IF answer = "id" THEN "progress" ELSE "raised"
    /\ calls' = Append(calls, "create")
    /\ UNCHANGED <<op, max_progress, progress, ready, statuses, image_data>>
    /\ ShotFrame

\* progress = IntProgress(min=0, max=max_progress); ready = False
ProgressStep ==
    /\ pc = "progress"
    /\ IF max_progress < 0
       THEN pc' = "raised" /\ err' = ErrTrait
       ELSE pc' = "while" /\ err' = NoErr
    /\ progress' = 0
    /\ ready' = FALSE
    /\ UNCHANGED <<op, calls, max_progress, statuses, image_data>>
    /\ ShotFrame

\* one pass of the while loop: a status request and its answer
PollStep ==
    /\ pc = "while"
    /\ Polling(ready, progress, max_progress)
    /\ progress' = Bounded(progress + 1, 0, max_progress)
    /\ calls' = Append(calls, "status")
    /\ \E answer \in StatusAnswers :
         /\ statuses' = Append(statuses, answer)
         /\ err' = RequestError(answer)
         /\ pc' = IF RequestError(answer) = NoErr THEN "while" ELSE "raised"
         /\ ready' = IF RequestError(answer) = NoErr THEN IsFinished(answer)
                     ELSE ready
    /\ UNCHANGED <<op, max_progress, image_data>>
    /\ ShotFrame

\* the loop is left: the image request, and the return of its response
ImageStep ==
    /\ pc = "while"
    /\ ~Polling(ready, progress, max_progress)
    /\ progress' = max_progress
    /\ calls' = Append(calls, "image")
    /\ \E answer \in ImageAnswers :
         /\ err' = RequestError(answer)
         /\ pc' = IF answer = "transport_error" THEN "raised" ELSE "returned"
         /\ image_data' = IF answer = "transport_error" THEN None ELSE answer
    /\ UNCHANGED <<op, max_progress, ready, statuses>>
    /\ ShotFrame

----------------------------------------------------------------------------
(* The operations on DomainValidator *)

\* the driver, the formatting and the screenshot take no part
AbuseFrame ==
    UNCHANGED <<driver, conn, qres, ever_connected, all_ok, connects,
                supplied, target, fmt_in, fmt_out, shot>>

\* an answer is drawn only when the download is made
Drawn(cache, answer) ==
    NeedsLoad(cache) \/ answer = [kind |-> "list", rows |-> <<>>]

\* validator.ssl_abuse_list
SslAbuseListStep ==
    \E self \in Instances, answer \in Downloads :
        \E r \in {SslAbuseList(ssl_abuse_list, answer)} :
            /\ Drawn(ssl_abuse_list, answer)
            /\ op' = "ssl_abuse_list"
            /\ ssl_abuse_list' = r.cache
            /\ calls' = r.calls
            /\ err' = r.err
            /\ abuse_ret' = AbuseRet(self, TRUE, r.download, r.ret, FALSE, None)
            /\ AbuseFrame

\* validator.in_abuse_list(url_domain)
InAbuseListStep ==
    \E self \in Instances, cert \in Certs, answer \in Downloads :
        \E r \in {InAbuseList(ssl_abuse_list, cert, answer)} :
            /\ Drawn(ssl_abuse_list, answer)
            /\ cert = None => answer = [kind |-> "list", rows |-> <<>>]
            /\ op' = "in_abuse_list"
            /\ ssl_abuse_list' = r.cache
            /\ calls' = r.calls
            /\ err' = NoErr
            /\ abuse_ret' = AbuseRet(self, r.accessed, r.download, <<>>,
                                     r.result, r.cert)
            /\ AbuseFrame

Next == ConnectStep \/ QueryWithResultsStep \/ QueryStep

Spec == Init /\ [][Next]_vars

NextConnect == ConnectStep \/ ConnectAnyStep

ConnectSpec == Init /\ [][NextConnect]_vars

NextFormat == FormatColumnsStep \/ FormatTablesStep

FormatSpec == Init /\ [][NextFormat]_vars

NextAbuse == SslAbuseListStep \/ InAbuseListStep

AbuseSpec == Init /\ [][NextAbuse]_vars

NextScreenshot ==
    ScreenshotCall \/ CreateStep \/ ProgressStep \/ PollStep \/ ImageStep

ScreenshotSpec == Init /\ [][NextScreenshot]_vars

\* a call that has started goes on: each request returns or raises within
\* the HTTP timeout
ScreenshotFairSpec ==
    /\ ScreenshotSpec
    /\ WF_vars(CreateStep)
    /\ WF_vars(ProgressStep)
    /\ WF_vars(PollStep)
    /\ WF_vars(ImageStep)

----------------------------------------------------------------------------
(* Error kinds of the specification, and the operations that query *)

QueryOps == {"query", "query_with_results"}

\* mismatched tenant ids of named workspaces, workspace_ids without tenant_id
ConfigurationErrors == {ErrTenantMismatch, ErrNoTenantId}

\* no usable workspace config, or one that lacks an identifier
ConnectionErrors == {ErrNoWorkspace, ErrNoIds}

\* service error, unexpected exception, partial result, missing data source
QueryErrors == {ErrQueryFailure, ErrUnknown, ErrPartial, ErrNoDataSource}

\* the inputs that resolve a single workspace
SingleInputs == {"workspace", "connection_str", "def_connection_str", "default"}

----------------------------------------------------------------------------
(* Claims *)

\* C1: on a driver on which no connect call has succeeded, query and
\* query_with_results raise the not-connected error, for every query string,
\* and make no call to the query client.
C1_NotConnectedBeforeConnect ==
    (op \in QueryOps /\ ~ever_connected) =>
        /\ err = ErrNotConnected
        /\ calls = <<>>
        /\ qres.sent = NoDispatch

\* C1 witness: a query on a driver whose only connect built the client and
\* then failed in the schema fetch.
C1_Witness ==
    /\ op \in QueryOps
    /\ ~ever_connected
    /\ connects > 0
    /\ query_client # <<>>
    /\ qres.query = "q2"
    /\ err = ErrNotConnected

\* C2: after a connect call the connected flag is set exactly when that call
\* raised nothing, and then the client it built is stored and the schema fetch
\* was attempted; a connect that raises leaves the driver disconnected, also
\* when it was connected before.
C2_ConnectedIffLastConnectSucceeded ==
    op = "connect" =>
        /\ connected <=> err = NoErr
        /\ connected =>
             /\ query_client = <<[tenant_id |-> az_tenant_id,
                                  auth_methods |-> connect_auth_types]>>
             /\ "LogsQueryClient" \in Range(calls)
             /\ "_get_schema" \in Range(calls)

\* C2 witness: a connect that raised on a driver an earlier connect had
\* connected.
C2_Witness ==
    /\ op = "connect"
    /\ err # NoErr
    /\ ever_connected
    /\ query_client # <<>>
    /\ ~connected

\* C3 (as claimed): a connect that aborts with a configuration or connection
\* error leaves workspace id, workspace-id list, tenant id, workspace config,
\* workspace name, auth types, default timeout and default connection string
\* as they were before the call.
C3_NoPartialState ==
    [][(op' = "connect" /\ err' \in ConfigurationErrors \cup ConnectionErrors)
         => UNCHANGED <<workspace_id, workspace_ids, az_tenant_id, ws_config,
                        ws_name, connect_auth_types, def_timeout,
                        def_connection_str>>]_vars

\* C4 (as claimed): after successful connect calls only, the driver holds
\* exactly one binding: a single workspace_id with an empty workspace-id list,
\* or a non-empty workspace-id list with no single workspace_id.
C4_OneBinding ==
    (connected /\ all_ok) =>
        \/ workspace_id # None /\ workspace_ids = <<>>
        \/ workspace_id = None /\ workspace_ids # <<>>

\* C5 (as claimed): a connect with a workspaces list whose configs hold two
\* or more distinct tenant ids fails with a configuration error before any
\* credential request or network call, and leaves the driver disconnected.
C5_TenantMismatchFails ==
    (op = "connect" /\ Cardinality(conn.tenants) >= 2) =>
        /\ err \in ConfigurationErrors
        /\ calls = <<>>
        /\ ~connected

\* C6 (as claimed): a connect with a non-empty workspace_ids list and no
\* tenant_id fails with the configuration error, leaves the stored
\* workspace-id list unchanged and the driver disconnected.
C6_IdsWithoutTenantFail ==
    [][(/\ op' = "connect"
        /\ "workspace_ids" \in conn'.given
        /\ ~conn'.tenant_given)
         => (/\ err' = ErrNoTenantId
             /\ err' \in ConfigurationErrors
             /\ workspace_ids' = workspace_ids
             /\ ~connected')]_vars

\* C6 (amended): a connect with a non-empty workspace_ids list, no workspaces
\* list and no tenant_id fails with the configuration error, leaves the stored
\* workspace-id list unchanged and the driver disconnected.
C6_IdsAloneWithoutTenantFail ==
    [][(/\ op' = "connect"
        /\ "workspace_ids" \in conn'.given
        /\ "workspaces" \notin conn'.given
        /\ ~conn'.tenant_given)
         => (/\ err' = ErrNoTenantId
             /\ err' \in ConfigurationErrors
             /\ workspace_ids' = workspace_ids
             /\ ~connected')]_vars

\* C6 witness: such a connect on a driver that holds a workspace-id list
\* from an earlier connect.
C6_Witness ==
    /\ op = "connect"
    /\ "workspace_ids" \in conn.given
    /\ "workspaces" \notin conn.given
    /\ ~conn.tenant_given
    /\ err = ErrNoTenantId
    /\ workspace_ids # <<>>

\* C7: of the workspace inputs given to one connect call the one used is the
\* first in the order workspaces, workspace_ids, workspace, connection_str,
\* stored connection string; the binding resolved is the one the call
\* resolves when given that input alone.
C7_Priority ==
    op = "connect" =>
        /\ conn.chosen = FirstByPriority(conn.given)
        /\ conn.resolved = conn.alone

\* C7 witness: a successful connect by workspace_ids that was also given a
\* workspace name and a connection string, on a driver with a stored one.
C7_Witness ==
    /\ op = "connect"
    /\ conn.chosen = "workspace_ids"
    /\ {"workspace", "connection_str", "def_connection_str"} \subseteq conn.given
    /\ err = NoErr

\* C8: a single-workspace connect whose config is absent or lacks
\* workspace_id or tenant_id fails with a connection error; in every
\* connected state a tenant_id and at least one workspace id are stored.
C8_ConnectedHasIds ==
    /\ (/\ op = "connect"
        /\ conn.chosen \in SingleInputs
        /\ \/ conn.cfg = None
           \/ Config(conn.cfg).workspace_id = None
           \/ Config(conn.cfg).tenant_id = None)
         => (err \in ConnectionErrors /\ ~connected)
    /\ connected =>
         /\ az_tenant_id # None
         /\ workspace_id # None \/ workspace_ids # <<>>

\* C8 witness: a connect by a connection string that holds no tenant_id.
C8_Witness ==
    /\ op = "connect"
    /\ conn.chosen = "connection_str"
    /\ conn.cfg = "cfgCsNoTenant"
    /\ err = ErrNoIds

\* C9: when the query service returns a partial result, the call raises the
\* query failure and returns no table if fail_on_partial is in effect;
\* otherwise it warns and returns the first partial-data table with a status
\* whose table count is the number of partial-data tables.
C9_PartialResult ==
    (op \in QueryOps /\ qres.sent # NoDispatch /\ qres.answer.kind = "partial") =>
        IF qres.fail_on_partial
        THEN /\ err = ErrPartial
             /\ qres.data = None
             /\ ~qres.warned
        ELSE /\ err = NoErr
             /\ qres.warned
             /\ qres.data = Head(qres.answer.tables)
             /\ qres.status.status = "PARTIAL"
             /\ qres.status.tables = Len(qres.answer.tables)

\* C9 witness: a partial result of two different tables returned with a
\* warning.
C9_Witness ==
    /\ op = "query_with_results"
    /\ qres.answer.kind = "partial"
    /\ Len(qres.answer.tables) = 2
    /\ qres.answer.tables[1] # qres.answer.tables[2]
    /\ qres.warned
    /\ err = NoErr

\* C10: a query call that ends in a query error changes no field of the
\* driver, which stays connected, and a query_with_results call that follows
\* it is dispatched.
C10_QueryErrorKeepsConnection ==
    [][/\ (op' \in QueryOps /\ err' \in QueryErrors)
            => (UNCHANGED driver /\ connected')
       /\ (op \in QueryOps /\ err \in QueryErrors /\ op' = "query_with_results")
            => (/\ qres'.sent # NoDispatch
                /\ calls' = <<"query_workspace">>)]_vars

\* C10 witness: a query to several workspaces that ended in a service error.
C10_Witness ==
    /\ op \in QueryOps
    /\ err = ErrQueryFailure
    /\ connected
    /\ workspace_ids # <<>>

\* C11 (as claimed): a query with a query_source on a connected driver raises
\* the no-data-source error, before any dispatch, exactly when the cached
\* schema is non-empty and the declared table, cut at its first space, is not
\* a key of the schema.
C11_TableCheck ==
    (op = "query" /\ err # ErrNotConnected /\ qres.table # <<>>) =>
        /\ err = ErrNoDataSource <=>
             (schema # {} /\ ~InSchema(SplitFirst(qres.table), schema))
        /\ err = ErrNoDataSource => (calls = <<>> /\ qres.sent = NoDispatch)

\* the connect just made built its client and then found the workspace config
\* without subscription_id, resource_group or workspace_name, or got an
\* answer other than OK from the management endpoint
SchemaUnavailable ==
    /\ op = "connect"
    /\ "LogsQueryClient" \in Range(calls)
    /\ \/ /\ ws_config # None
          /\ ~Config(ws_config).full \/ Config(ws_config).workspace_name = None
       \/ conn.schema_answer = "not_ok"

\* C12: a connect whose schema fetch finds the config incomplete or gets a
\* non-OK answer succeeds with the cached schema empty, whatever was cached
\* before; a query without query_source that follows it and gets a one-table
\* result returns that table with status success and table count 1.
C12_SchemaBestEffort ==
    [][/\ SchemaUnavailable' => (err' = NoErr /\ connected' /\ schema' = {})
       /\ (/\ SchemaUnavailable
           /\ op' \in QueryOps
           /\ qres'.table = <<>>
           /\ qres'.answer.kind = "success"
           /\ Len(qres'.answer.tables) = 1)
            => (/\ err' = NoErr
                /\ qres'.status = Status("SUCCESS", 1, None)
                /\ qres'.data = qres'.answer.tables[1])]_vars

\* C12 witness: a connect that got a non-OK answer from the management
\* endpoint on a driver that had a schema cached.
C12_Witness ==
    /\ SchemaUnavailable
    /\ conn.schema_answer = "not_ok"
    /\ conn.schema_before # {}
    /\ schema = {}
    /\ connected

\* C13 (as claimed): every query_with_results call that returns has a status
\* of a status name and the table count of the result; a call whose result
\* is neither a full nor a partial result reports the status "unknown
\* failure" with table count 0 and the raw result.
C13_StatusAlways ==
    /\ (op = "query_with_results" /\ err = NoErr) =>
         /\ qres.status # NoStatus
         /\ qres.answer.kind \in {"success", "partial"} =>
              qres.status.tables = Len(qres.answer.tables)
    /\ (/\ op = "query_with_results"
        /\ qres.sent # NoDispatch
        /\ qres.answer.kind = "unknown")
         => (/\ err = NoErr
             /\ qres.status = Status("unknown failure", 0, "unknown"))

\* two times denote the same instant, read in the same timezone
SameInstant(a, b) == a.us = b.us /\ a.ns = b.ns /\ a.tz = b.tz

\* b is a, cut to whole microseconds, as a datetime in the same timezone
CutToMicroseconds(a, b) ==
    b.type = "datetime" /\ b.us = a.us /\ b.ns = 0 /\ b.tz = a.tz

\* no time span is due for these keyword arguments
NoTimeSpanDue(kw) ==
    kw.default_time_params \/ kw.start = <<>> \/ kw.end = <<>>

\* C14 (as claimed): the time span of a dispatched query is absent exactly
\* when default_time_params is true or a bound is missing; otherwise it is the
\* pair (start, end) of the same instants as the caller's bounds.
C14_TimeSpanSameInstants ==
    (op \in QueryOps /\ qres.sent # NoDispatch) =>
        /\ qres.sent.timespan = <<>> <=> NoTimeSpanDue(qres.kw)
        /\ ~NoTimeSpanDue(qres.kw) =>
             /\ Len(qres.sent.timespan) = 2
             /\ SameInstant(qres.kw.start[1], qres.sent.timespan[1])
             /\ SameInstant(qres.kw.end[1], qres.sent.timespan[2])

\* C14 (amended): the time span of a dispatched query is absent exactly when
\* default_time_params is true or a bound is missing; otherwise it is the
\* pair (start, end) of datetimes that are the caller's bounds cut to whole
\* microseconds, each in the timezone of its bound.
C14_TimeSpanToMicroseconds ==
    (op \in QueryOps /\ qres.sent # NoDispatch) =>
        /\ qres.sent.timespan = <<>> <=> NoTimeSpanDue(qres.kw)
        /\ ~NoTimeSpanDue(qres.kw) =>
             /\ Len(qres.sent.timespan) = 2
             /\ CutToMicroseconds(qres.kw.start[1], qres.sent.timespan[1])
             /\ CutToMicroseconds(qres.kw.end[1], qres.sent.timespan[2])

\* C14 witness: a dispatched query whose bounds are timestamps with
\* nanoseconds beyond the microsecond.
C14_Witness ==
    /\ op = "query_with_results"
    /\ qres.sent # NoDispatch
    /\ ~NoTimeSpanDue(qres.kw)
    /\ qres.kw.start[1].ns # 0
    /\ qres.kw.end[1].ns # 0
    /\ qres.sent.timespan # <<>>

\* C15 (as claimed): the timeout passed to the query client is the timeout of
\* the call when it has one, else the timeout last given to connect, else the
\* timeout given at construction, else 300 seconds.
C15_TimeoutPrecedence ==
    (op \in QueryOps /\ qres.sent # NoDispatch) =>
        qres.sent.server_timeout =
            IF qres.kw.timeout # NoTimeout THEN qres.kw.timeout
            ELSE IF supplied.timeout # NoTimeout THEN supplied.timeout
            ELSE DEFAULT_TIMEOUT

\* C16 (as claimed): after a successful connect by workspaces or
\* workspace_ids the cached schema is empty and no schema request was made,
\* whatever an earlier connect on the driver resolved and cached.
C16_NoSchemaForMulti ==
    (/\ op = "connect"
     /\ conn.chosen \in {"workspaces", "workspace_ids"}
     /\ err = NoErr)
      => (/\ schema = {}
          /\ "http_get" \notin Range(calls))

\* the keys and the value of a key of a dict
Keys(d) == {d[i][1] : i \in DOMAIN d}

Value(d, k) == d[CHOOSE i \in DOMAIN d : d[i][1] = k][2]

\* the items of a dict follow each other in the order of their keys
SortedByKey(d) ==
    \A i, j \in DOMAIN d : i < j => Rank(d[i][1]) < Rank(d[j][1])

\* the same elements in every order
PermutationsOf(q) ==
    {[i \in DOMAIN q |-> q[f[i]]] : f \in Permutations(DOMAIN q)}

\* the type the last column of that name in a list has
LastType(cols, name) ==
    cols[CHOOSE i \in DOMAIN cols :
           /\ cols[i].name = name
           /\ \A j \in DOMAIN cols : cols[j].name = name => j <= i].type

ColumnNames(cols) == {cols[i].name : i \in DOMAIN cols}

\* the columns of a table schema as the claim describes them
ColumnsAsClaimed(table_schema, out) ==
    /\ SortedByKey(out)
    /\ Keys(out) = ColumnNames(table_schema.standardColumns)
                     \cup ColumnNames(table_schema.customColumns)
    /\ \A k \in Keys(out) :
         Value(out, k) =
             IF k \in ColumnNames(table_schema.customColumns)
             THEN LastType(table_schema.customColumns, k)
             ELSE LastType(table_schema.standardColumns, k)

\* every permutation of the column lists of a table schema
SchemaPermutations(table_schema) ==
    {RawSchema(s, c) : s \in PermutationsOf(table_schema.standardColumns),
                       c \in PermutationsOf(table_schema.customColumns)}

\* no name occurs twice in a list
DistinctNames(q) == \A i, j \in DOMAIN q : q[i].name = q[j].name => i = j

\* C17 (as claimed): formatting yields a mapping sorted by table name whose
\* values are mappings sorted by column name in which a custom column
\* overrides a standard one; formatting again gives the same result, and so
\* does formatting any permutation of the table list or of the column lists.
C17_FormatOrderIndependent ==
    [][/\ op' = "_schema_format_columns" =>
            /\ ColumnsAsClaimed(fmt_in', fmt_out')
            /\ (op = op' /\ fmt_in' = fmt_in) => fmt_out' = fmt_out
            /\ \A p \in SchemaPermutations(fmt_in') :
                 SchemaFormatColumns(p) = fmt_out'
       /\ op' = "_schema_format_tables" =>
            /\ SortedByKey(fmt_out')
            /\ Keys(fmt_out') = {fmt_in'[i].name : i \in DOMAIN fmt_in'}
            /\ \A i \in DOMAIN fmt_out' : SortedByKey(fmt_out'[i][2])
            /\ (op = op' /\ fmt_in' = fmt_in) => fmt_out' = fmt_out
            /\ \A p \in PermutationsOf(fmt_in') :
                 SchemaFormatTables(p) = fmt_out']_vars

\* C17 (amended): the same, with the result the same for every permutation
\* of a table list that names no table twice and of column lists that name
\* no column twice.
C17_FormatOrderIndependentDistinct ==
    [][/\ op' = "_schema_format_columns" =>
            /\ ColumnsAsClaimed(fmt_in', fmt_out')
            /\ (op = op' /\ fmt_in' = fmt_in) => fmt_out' = fmt_out
            /\ (/\ DistinctNames(fmt_in'.standardColumns)
                /\ DistinctNames(fmt_in'.customColumns))
                 => \A p \in SchemaPermutations(fmt_in') :
                      SchemaFormatColumns(p) = fmt_out'
       /\ op' = "_schema_format_tables" =>
            /\ SortedByKey(fmt_out')
            /\ Keys(fmt_out') = {fmt_in'[i].name : i \in DOMAIN fmt_in'}
            /\ \A i \in DOMAIN fmt_out' : SortedByKey(fmt_out'[i][2])
            /\ (op = op' /\ fmt_in' = fmt_in) => fmt_out' = fmt_out
            /\ DistinctNames(fmt_in')
                 => \A p \in PermutationsOf(fmt_in') :
                      SchemaFormatTables(p) = fmt_out']_vars

\* C17 witness: two tables given in descending order of name, one with a
\* custom column that overrides a standard one.
C17_Witness ==
    /\ op = "_schema_format_tables"
    /\ Len(fmt_in) = 2
    /\ fmt_in[1].name = "b"
    /\ fmt_in[2].name = "a"
    /\ fmt_in[1].schema.customColumns # <<>>
    /\ fmt_out[1][1] = "a"
    /\ fmt_out[2][2] = <<<<"x", "str">>>>

\* no id occurs twice in a list of workspace ids
NoRepeat(ids) == \A i, j \in DOMAIN ids : ids[i] = ids[j] => i = j

\* C18 (as claimed): every dispatched query targets exactly the workspaces
\* the most recent successful connect resolved: after a connect to a single
\* workspace that workspace id and no additional workspace, after a connect
\* to several workspaces the first id as the primary workspace and the
\* others, none repeated and none dropped, as the additional workspaces.
C18_TargetsResolved ==
    (op \in QueryOps /\ qres.sent # NoDispatch) =>
        IF target.multi
        THEN /\ <<qres.sent.workspace_id>> \o qres.sent.additional_workspaces
                  = target.ids
             /\ NoRepeat(target.ids)
        ELSE /\ <<qres.sent.workspace_id>> = target.ids
             /\ qres.sent.additional_workspaces = <<>>

RECURSIVE JoinLines(_)
\* the lines of a text, put together again with a line break between them
JoinLines(lines) ==
    IF Len(lines) = 1 THEN lines[1]
    ELSE lines[1] \o <<"\n">> \o JoinLines(Tail(lines))

\* the dispatched queries to which the query client answered with an
\* exception
DispatchFailed ==
    /\ op \in QueryOps
    /\ qres.sent # NoDispatch
    /\ qres.answer.kind \in {"http_error", "exception"}

\* C19: an exception of the query client during dispatch, a service-level
\* query error or any other, makes the call fail with a query-failure error
\* (MsticpyDataQueryError) raised from that exception; nothing else escapes
\* and no table and no status are returned.  For a service-level error the
\* error carries the lines of the service message, followed by the text of
\* the query.
C19_DispatchFailure ==
    DispatchFailed =>
        /\ err.class = "MsticpyDataQueryError"
        /\ qres.raised.cause = Raised(qres.answer)
        /\ qres.data = None
        /\ qres.status = NoStatus
        /\ qres.answer.kind = "http_error" =>
             LET args == qres.raised.args
                 lines == SubSeq(args, 1, Len(args) - 1)
             IN  /\ Len(args) >= 2
                 /\ JoinLines(lines) = qres.answer.message
                 /\ \A i \in DOMAIN lines :
                      \A j \in DOMAIN lines[i] : lines[i][j] # "\n"
                 /\ args[Len(args)] = <<"Query:", "\n", qres.query>>

\* C19 witness: a dispatched query met by a service-level error with a
\* message of two lines.
C19_Witness ==
    /\ DispatchFailed
    /\ qres.answer.message = <<"e1", "\n", "e2">>
    /\ qres.raised.args = <<<<"e1">>, <<"e2">>, <<"Query:", "\n", "q1">>>>
    /\ qres.raised.cause.class = "HttpResponseError"
    /\ err = ErrQueryFailure

\* the fail_on_partial of a call whose keyword arguments are kw, on a driver
\* whose default is default
InEffect(kw, default) ==
    IF kw.fail_if_partial # None THEN kw.fail_if_partial = "True"
    ELSE IF kw.fail_on_partial # None THEN kw.fail_on_partial = "True"
    ELSE default

\* a query step whose dispatched query the service answers with a partial
\* result
PartialAnswered ==
    /\ op' \in QueryOps
    /\ qres'.sent # NoDispatch
    /\ qres'.answer.kind = "partial"

\* C20 (as claimed): the fail_on_partial in effect for a query is the
\* per-call value when one is supplied, fail_if_partial before
\* fail_on_partial, else the driver default; the driver default is the value
\* given to the most recent connect call that supplied one, else the value
\* given at construction, else false; no query call changes the default.
C20_FailOnPartialInEffect ==
    [][/\ PartialAnswered =>
            (err' = ErrPartial
               <=> InEffect(qres'.kw, supplied.fail_on_partial = "True"))
       /\ op' \in QueryOps => fail_on_partial' = fail_on_partial]_vars

\* C20 (amended): the same, with the driver default the value given to the
\* most recent connect call that supplied one and built its query client.
C20_FailOnPartialOfBuiltConnect ==
    [][/\ PartialAnswered =>
            (err' = ErrPartial <=> InEffect(qres'.kw, supplied.built = "True"))
       /\ op' \in QueryOps => fail_on_partial' = fail_on_partial]_vars

\* C20 witness: a connect that was given fail_on_partial true failed before
\* it built a client, so that the default is still false; a call with
\* fail_on_partial true and fail_if_partial false gets its partial result
\* with a warning.
C20_Witness ==
    /\ op \in QueryOps
    /\ qres.answer.kind = "partial"
    /\ supplied.fail_on_partial = "True"
    /\ supplied.built = None
    /\ ~fail_on_partial
    /\ qres.kw.fail_on_partial = "True"
    /\ qres.kw.fail_if_partial = "False"
    /\ qres.warned
    /\ err = NoErr

\* the requests of one kind a screenshot call has issued
Requests(kind) == Cardinality({i \in DOMAIN calls : calls[i] = kind})

\* no status request follows an answer "finished"
StopsAtFinished ==
    \A i \in DOMAIN statuses : statuses[i] = "finished" => i = Len(statuses)

\* at most max_progress status requests, none when max_progress <= 0
StatusRequestsBounded ==
    op = "screenshot" =>
        Requests("status") <= (IF max_progress > 0 THEN max_progress ELSE 0)

\* the call has returned the response to its one image request, after an
\* answer "finished" or after max_progress status requests
ReturnedImage ==
    /\ pc = "returned"
    /\ Requests("image") = 1
    /\ calls[Len(calls)] = "image"
    /\ image_data \in ImageAnswers
    /\ \/ statuses # <<>> /\ statuses[Len(statuses)] = "finished"
       \/ Requests("status") = max_progress

\* C21 (as claimed): the polling loop of screenshot terminates for every
\* sequence of status responses; it issues at most max_progress status
\* requests, none when max_progress <= 0, and none after a response whose
\* status is "finished"; whether finished or timed out, it then issues
\* exactly one image request and returns its response.
C21_PollingReturnsImage ==
    /\ []StatusRequestsBounded
    /\ []StopsAtFinished
    /\ (pc = "progress") ~> ReturnedImage

\* the call has raised from the polling loop: from the progress bar when
\* max_progress is negative, from a status request that got no response or
\* a response without a status, or from the image request
RaisedInLoop ==
    /\ pc = "raised"
    /\ \/ /\ err = ErrTrait
          /\ max_progress < 0
          /\ calls = <<"create">>
       \/ /\ statuses # <<>>
          /\ statuses[Len(statuses)] \in {"no_status", "transport_error"}
          /\ err = RequestError(statuses[Len(statuses)])
          /\ Requests("image") = 0
       \/ /\ err = ErrHttpx
          /\ Requests("image") = 1
          /\ calls[Len(calls)] = "image"

\* C21 (amended): the loop terminates for every sequence of status
\* responses, with the same bounds on its status requests; it ends with the
\* return of the response to exactly one image request, unless max_progress
\* is negative, a status response carries no status, or a request gets no
\* response: then the call raises.
C21_PollingTerminates ==
    /\ []StatusRequestsBounded
    /\ []StopsAtFinished
    /\ (pc = "progress") ~> (ReturnedImage \/ RaisedInLoop)
    /\ [](pc = "returned" => ReturnedImage)
    /\ []((pc = "raised" /\ (err = ErrTrait \/ Len(calls) > 1)) => RaisedInLoop)

\* C21 witness: the second status response was "finished", a third request
\* was allowed but not made, and the image was returned.
C21_Witness ==
    /\ pc = "returned"
    /\ max_progress = 3
    /\ statuses = <<"processing", "finished">>
    /\ calls = <<"create", "status", "status", "image">>
    /\ image_data = "success"

\* the operations on a DomainValidator
AbuseOps == {"ssl_abuse_list", "in_abuse_list"}

\* the downloads that failed
FailedDownloads == {"caught", "other"}

\* C22: over any sequence of ssl_abuse_list accesses and in_abuse_list
\* calls on any instances, an access downloads the abuse list if and only if
\* the class-level cache is empty at that moment, and nothing else downloads
\* it; a non-empty cached list is never downloaded again or replaced; a
\* failed download leaves the cache empty, and the next access downloads
\* again.
C22_AbuseListCachedOnce ==
    [][op' \in AbuseOps =>
         /\ abuse_ret'.accessed =>
              (calls' = <<"read_csv">> <=> ssl_abuse_list = <<>>)
         /\ calls' \in {<<>>, <<"read_csv">>}
         /\ ~abuse_ret'.accessed => calls' = <<>>
         /\ ssl_abuse_list # <<>> =>
              (calls' = <<>> /\ ssl_abuse_list' = ssl_abuse_list)
         /\ abuse_ret'.download \in FailedDownloads => ssl_abuse_list' = <<>>
         /\ (/\ op \in AbuseOps
             /\ abuse_ret.download \in FailedDownloads
             /\ abuse_ret'.accessed)
              => calls' = <<"read_csv">>]_vars

\* C22 witness: in_abuse_list on the second instance finds the certificate
\* in the cached list of two rows, without a download.
C22_Witness ==
    /\ op = "in_abuse_list"
    /\ abuse_ret.self = "v2"
    /\ abuse_ret.accessed
    /\ abuse_ret.result
    /\ Len(ssl_abuse_list) = 2
    /\ calls = <<>>

====
